---- MODULE Spec2Model ----
(***************************************************************************)
(* supabase-typed-query: the Entity factory and the queries it generates.  *)
(*                                                                         *)
(* Entity(client, name, config) returns an object whose members are the    *)
(* closures built by the factories of ./core.  A member applied to a       *)
(* parameter object builds a query: a chain of calls on the builder that   *)
(* client.from(name) returns.  Executing the query awaits the builder,     *)
(* which resolves to { data, error }.                                      *)
(*                                                                         *)
(* The repository holds two versions of Entity: the one that reads         *)
(* config.schema and returns eight members (Entity below), and the one     *)
(* that takes no schema and returns five members (EntityNoSchema below).   *)
(*                                                                         *)
(* Spec is the caller building queries and changing its config object;     *)
(* its history is kept in ops.  SpecExec is two concurrent callers, each   *)
(* building a query, executing it and getting the client's response.       *)
(***************************************************************************)
EXTENDS Naturals, Sequences, FiniteSets, TLC

VARIABLES
    args,     \* the arguments Entity was called with (never changes)
    config,   \* the caller's config object, which the caller may change later
    entity,   \* the object Entity returned
    ops,      \* Spec: what the caller did so far, in order: the queries it
              \* built and the changes it made to its config object
    tasks,    \* SpecExec: the operation each concurrent caller is running
    failed    \* SpecExec: TRUE once the client has reported an error

vars == <<args, config, entity, ops, tasks, failed>>

\* The largest number of steps the caller of Spec takes.
MaxOps == 2

\* The concurrent callers of SpecExec.
Callers == {"caller1", "caller2"}

undefined == "undefined"
null == "null"

Clients == {"clientA", "clientB"}
Tables == {"tenants", "users"}
SoftDeleteValues == {TRUE, FALSE}
SchemaValues == {undefined, "custom"}
Versions == {"schema", "noSchema"}

Configs == [softDelete : SoftDeleteValues, schema : SchemaValues]

\* The members of the object Entity returns.
GetOps == {"getItem", "getItems"}
MutationOps == {"addItems", "updateItem", "updateItems", "upsertItems",
                "deleteItem", "deleteItems"}
CrudOps == GetOps \cup MutationOps

\* The filter methods of the builder that take a condition of a parameter object.
FilterMethods == {"match", "eq", "is", "in", "order"}

\* The methods of the builder the model uses.
QueryBuilder ==
    {"select", "insert", "update", "upsert", "delete"} \cup FilterMethods

----------------------------------------------------------------------------
(* Parameter objects.  A parameter object is a function from the keys it   *)
(* holds to their values; a key that is absent is not in its domain.       *)

ParamValue ==
    [k \in {"id", "where", "is", "wherein", "order", "items", "item", "identity"} |->
        CASE k = "id"       -> "123"
          [] k = "where"    -> "status=active"
          [] k = "is"       -> "archived:null"
          [] k = "wherein"  -> "role:[a,b]"
          [] k = "order"    -> "created_at:desc"
          [] k = "items"    -> "[row1,row2]"
          [] k = "item"     -> "row1"
          [] k = "identity" -> "id"]

ParamsOver(required, optional) ==
    { [k \in required \cup s |-> ParamValue[k]] : s \in SUBSET optional }

ParamsOf(op) ==
    CASE op = "getItem"     -> ParamsOver({"id"}, {"where", "is"})
      [] op = "getItems"    -> ParamsOver({}, {"where", "is", "wherein", "order"})
      [] op = "addItems"    -> ParamsOver({"items"}, {})
      [] op = "updateItem"  -> ParamsOver({"id", "item"}, {})
      [] op = "updateItems" -> ParamsOver({"items", "identity"}, {})
      [] op = "upsertItems" -> ParamsOver({"items", "identity"}, {})
      [] op = "deleteItem"  -> ParamsOver({"where"}, {})
      [] op = "deleteItems" -> ParamsOver({"where"}, {})

Has(params, k) == k \in DOMAIN params

----------------------------------------------------------------------------
(* ./core: the factories Entity binds.                                     *)

getSoftDeleteMode(softDelete) ==
    IF softDelete = TRUE THEN "exclude" ELSE "include"

makeGetItem(client, name, softDeleteMode, schema) ==
    [kind |-> "getItem", client |-> client, name |-> name,
     softDeleteMode |-> softDeleteMode, schema |-> schema]

makeGetItems(client, name, softDeleteMode, schema) ==
    [kind |-> "getItems", client |-> client, name |-> name,
     softDeleteMode |-> softDeleteMode, schema |-> schema]

makeAddItems(client, name, schema) ==
    [kind |-> "addItems", client |-> client, name |-> name, schema |-> schema]

makeUpdateItem(client, name, schema) ==
    [kind |-> "updateItem", client |-> client, name |-> name, schema |-> schema]

makeUpdateItems(client, name, schema) ==
    [kind |-> "updateItems", client |-> client, name |-> name, schema |-> schema]

makeUpsertItems(client, name, schema) ==
    [kind |-> "upsertItems", client |-> client, name |-> name, schema |-> schema]

makeDeleteItem(client, name, schema) ==
    [kind |-> "deleteItem", client |-> client, name |-> name, schema |-> schema]

makeDeleteItems(client, name, schema) ==
    [kind |-> "deleteItems", client |-> client, name |-> name, schema |-> schema]

\* One builder call made for the condition `key` of the parameter object.
BuilderCall(method, key, arg) == [method |-> method, key |-> key, arg |-> arg]

\* The call made for params[key] when the closure reads `key` and it is present.
CallFor(params, key, method) ==
    IF Has(params, key) THEN <<BuilderCall(method, key, params[key])>> ELSE <<>>

\* The filter that leaves out the rows flagged as deleted.
SoftDeleteCalls(softDeleteMode) ==
    IF softDeleteMode = "exclude"
    THEN <<BuilderCall("is", "softDelete", null)>>
    ELSE <<>>

\* The chain of builder calls a closure makes for a parameter object.
BuildCalls(closure, params) ==
    CASE closure.kind = "getItem" ->
            <<BuilderCall("select", "columns", "*")>>
            \o CallFor(params, "id", "eq")
            \o CallFor(params, "where", "match")
            \o CallFor(params, "is", "is")
            \o SoftDeleteCalls(closure.softDeleteMode)
      [] closure.kind = "getItems" ->
            <<BuilderCall("select", "columns", "*")>>
            \o CallFor(params, "where", "match")
            \o CallFor(params, "is", "is")
            \o CallFor(params, "wherein", "in")
            \o SoftDeleteCalls(closure.softDeleteMode)
            \o CallFor(params, "order", "order")
      [] closure.kind = "addItems" ->
            CallFor(params, "items", "insert")
            \o <<BuilderCall("select", "columns", "*")>>
      [] closure.kind = "updateItem" ->
            CallFor(params, "item", "update")
            \o CallFor(params, "id", "eq")
            \o <<BuilderCall("select", "columns", "*")>>
      [] closure.kind = "updateItems" ->
            CallFor(params, "items", "upsert")
            \o <<BuilderCall("select", "columns", "*")>>
      [] closure.kind = "upsertItems" ->
            CallFor(params, "items", "upsert")
            \o <<BuilderCall("select", "columns", "*")>>
      [] closure.kind = "deleteItem" ->
            <<BuilderCall("delete", "rows", null)>>
            \o CallFor(params, "where", "match")
            \o <<BuilderCall("select", "columns", "*")>>
      [] closure.kind = "deleteItems" ->
            <<BuilderCall("delete", "rows", null)>>
            \o CallFor(params, "where", "match")
            \o <<BuilderCall("select", "columns", "*")>>

\* The query a closure builds: client.from(name), in the closure's schema,
\* followed by the chain of builder calls.
Invoke(closure, params) ==
    [client |-> closure.client,
     from   |-> closure.name,
     schema |-> closure.schema,
     calls  |-> BuildCalls(closure, params)]

----------------------------------------------------------------------------
(* Entity                                                                  *)

\* Entity with getItems built as if soft delete were not configured.
Entity_getItemsWithoutSoftDelete(client, name, cfg) ==
    LET softDeleteMode == getSoftDeleteMode(cfg.softDelete)
        schema == cfg.schema
    IN  [getItem     |-> makeGetItem(client, name, softDeleteMode, schema),
         getItems    |-> makeGetItems(client, name, getSoftDeleteMode(FALSE), schema),
         addItems    |-> makeAddItems(client, name, schema),
         updateItem  |-> makeUpdateItem(client, name, schema),
         updateItems |-> makeUpdateItems(client, name, schema),
         upsertItems |-> makeUpsertItems(client, name, schema),
         deleteItem  |-> makeDeleteItem(client, name, schema),
         deleteItems |-> makeDeleteItems(client, name, schema)]

\* Entity with getItems bound to the factory of getItem.
Entity_getItemsFromMakeGetItem(client, name, cfg) ==
    LET softDeleteMode == getSoftDeleteMode(cfg.softDelete)
        schema == cfg.schema
    IN  [getItem     |-> makeGetItem(client, name, softDeleteMode, schema),
         getItems    |-> makeGetItem(client, name, softDeleteMode, schema),
         addItems    |-> makeAddItems(client, name, schema),
         updateItem  |-> makeUpdateItem(client, name, schema),
         updateItems |-> makeUpdateItems(client, name, schema),
         upsertItems |-> makeUpsertItems(client, name, schema),
         deleteItem  |-> makeDeleteItem(client, name, schema),
         deleteItems |-> makeDeleteItems(client, name, schema)]

\* Entity with the soft-delete mode handed to makeDeleteItem, in the place
\* of the schema.
Entity_softDeleteModeToDeleteItem(client, name, cfg) ==
    LET softDeleteMode == getSoftDeleteMode(cfg.softDelete)
        schema == cfg.schema
    IN  [getItem     |-> makeGetItem(client, name, softDeleteMode, schema),
         getItems    |-> makeGetItems(client, name, softDeleteMode, schema),
         addItems    |-> makeAddItems(client, name, schema),
         updateItem  |-> makeUpdateItem(client, name, schema),
         updateItems |-> makeUpdateItems(client, name, schema),
         upsertItems |-> makeUpsertItems(client, name, schema),
         deleteItem  |-> makeDeleteItem(client, name, softDeleteMode),
         deleteItems |-> makeDeleteItems(client, name, schema)]

\* Entity with updateItems bound to the table of the documentation's example
\* instead of `name`.
Entity_updateItemsOnTenants(client, name, cfg) ==
    LET softDeleteMode == getSoftDeleteMode(cfg.softDelete)
        schema == cfg.schema
    IN  [getItem     |-> makeGetItem(client, name, softDeleteMode, schema),
         getItems    |-> makeGetItems(client, name, softDeleteMode, schema),
         addItems    |-> makeAddItems(client, name, schema),
         updateItem  |-> makeUpdateItem(client, name, schema),
         updateItems |-> makeUpdateItems(client, "tenants", schema),
         upsertItems |-> makeUpsertItems(client, name, schema),
         deleteItem  |-> makeDeleteItem(client, name, schema),
         deleteItems |-> makeDeleteItems(client, name, schema)]

Entity(client, name, cfg) ==
    LET softDeleteMode == getSoftDeleteMode(cfg.softDelete)
        schema == cfg.schema
    IN  [getItem     |-> makeGetItem(client, name, softDeleteMode, schema),
         getItems    |-> makeGetItems(client, name, softDeleteMode, schema),
         addItems    |-> makeAddItems(client, name, schema),
         updateItem  |-> makeUpdateItem(client, name, schema),
         updateItems |-> makeUpdateItems(client, name, schema),
         upsertItems |-> makeUpsertItems(client, name, schema),
         deleteItem  |-> makeDeleteItem(client, name, schema),
         deleteItems |-> makeDeleteItems(client, name, schema)]

\* The version without the schema argument: the factories get no schema.
EntityNoSchema(client, name, cfg) ==
    LET softDeleteMode == getSoftDeleteMode(cfg.softDelete)
    IN  [getItem     |-> makeGetItem(client, name, softDeleteMode, undefined),
         getItems    |-> makeGetItems(client, name, softDeleteMode, undefined),
         addItems    |-> makeAddItems(client, name, undefined),
         updateItem  |-> makeUpdateItem(client, name, undefined),
         updateItems |-> makeUpdateItems(client, name, undefined)]

----------------------------------------------------------------------------
(* Execution: awaiting the builder sends the request; the client answers   *)
(* with { data, error }.                                                   *)

ClientErrors == {"row-not-found", "constraint-violation", "network-failure"}

\* The execution methods of the query an operation returns.
MethodsOf(op) ==
    CASE op = "getItems" -> {"many", "manyOrThrow", "first", "firstOrThrow"}
      [] op \in {"getItem", "updateItem", "deleteItem"} -> {"one", "oneOrThrow"}
      [] OTHER -> {"many", "manyOrThrow"}

OrThrow(method) == method \in {"oneOrThrow", "manyOrThrow", "firstOrThrow"}

\* What the client may answer to a request: the rows, or one of its errors.
Answers == {"rows"} \cup ClientErrors

\* The { data, error } the builder of `query` resolves to.
ResponseTo(query, answer) ==
    IF answer \in ClientErrors
    THEN [request |-> query, data |-> null, error |-> answer]
    ELSE [request |-> query, data |-> answer, error |-> null]

\* Settle with a method that does not throw reporting success whatever the
\* client answered.
Settle_swallowsError(method, response) ==
    IF OrThrow(method) /\ response.error # null
    THEN [kind |-> "raised", data |-> null, error |-> response.error]
    ELSE [kind |-> "returned", data |-> response.data, error |-> null]

\* What an execution method makes of the client's response.
Settle(method, response) ==
    IF OrThrow(method) /\ response.error # null
    THEN [kind |-> "raised", data |-> null, error |-> response.error]
    ELSE [kind |-> "returned", data |-> response.data, error |-> response.error]

Idle ==
    [status |-> "idle", op |-> null, params |-> null, query |-> null,
     method |-> null, sent |-> 0, received |-> 0, response |-> null,
     outcome |-> null]

\* The parameter objects the concurrent callers use: for each operation the
\* one with all its keys.
ExecParamsOf(op) ==
    {p \in ParamsOf(op) : \A q \in ParamsOf(op) : DOMAIN q \subseteq DOMAIN p}

----------------------------------------------------------------------------
EntityOf(version, client, name, cfg) ==
    IF version = "schema"
    THEN Entity(client, name, cfg)
    ELSE EntityNoSchema(client, name, cfg)

Init ==
    /\ args \in [client : Clients, name : Tables, config : Configs,
                 version : Versions]
    /\ config = args.config
    /\ entity = EntityOf(args.version, args.client, args.name, args.config)
    /\ ops = <<>>
    /\ tasks = [c \in Callers |-> Idle]
    /\ failed = FALSE

\* One step of the caller's history: the member called, its parameter object
\* and the query the member built.
Built(op, params, query) == [op |-> op, params |-> params, query |-> query]

\* The caller's history after entity[op](params).
Call(op, params) ==
    Append(ops, Built(op, params, Invoke(entity[op], params)))

\* getItems reading the caller's config object at each call instead of
\* the values taken when Entity was called.
getItems_readsConfig(params) ==
    /\ "getItems" \in DOMAIN entity
    /\ Len(ops) < MaxOps
    /\ ops' = Append(ops,
                Built("getItems", params,
                      Invoke(makeGetItems(args.client, args.name,
                                          getSoftDeleteMode(config.softDelete),
                                          config.schema),
                             params)))
    /\ UNCHANGED <<args, config, entity, tasks, failed>>

getItem(params) ==
    /\ "getItem" \in DOMAIN entity
    /\ Len(ops) < MaxOps
    /\ ops' = Call("getItem", params)
    /\ UNCHANGED <<args, config, entity, tasks, failed>>

getItems(params) ==
    /\ "getItems" \in DOMAIN entity
    /\ Len(ops) < MaxOps
    /\ ops' = Call("getItems", params)
    /\ UNCHANGED <<args, config, entity, tasks, failed>>

addItems(params) ==
    /\ "addItems" \in DOMAIN entity
    /\ Len(ops) < MaxOps
    /\ ops' = Call("addItems", params)
    /\ UNCHANGED <<args, config, entity, tasks, failed>>

updateItem(params) ==
    /\ "updateItem" \in DOMAIN entity
    /\ Len(ops) < MaxOps
    /\ ops' = Call("updateItem", params)
    /\ UNCHANGED <<args, config, entity, tasks, failed>>

updateItems(params) ==
    /\ "updateItems" \in DOMAIN entity
    /\ Len(ops) < MaxOps
    /\ ops' = Call("updateItems", params)
    /\ UNCHANGED <<args, config, entity, tasks, failed>>

upsertItems(params) ==
    /\ "upsertItems" \in DOMAIN entity
    /\ Len(ops) < MaxOps
    /\ ops' = Call("upsertItems", params)
    /\ UNCHANGED <<args, config, entity, tasks, failed>>

deleteItem(params) ==
    /\ "deleteItem" \in DOMAIN entity
    /\ Len(ops) < MaxOps
    /\ ops' = Call("deleteItem", params)
    /\ UNCHANGED <<args, config, entity, tasks, failed>>

deleteItems(params) ==
    /\ "deleteItems" \in DOMAIN entity
    /\ Len(ops) < MaxOps
    /\ ops' = Call("deleteItems", params)
    /\ UNCHANGED <<args, config, entity, tasks, failed>>

\* The caller changes the config object it passed to Entity.
SetConfig(cfg) ==
    /\ cfg # config
    /\ Len(ops) < MaxOps
    /\ config' = cfg
    /\ ops' = Append(ops, Built("setConfig", cfg, null))
    /\ UNCHANGED <<args, entity, tasks, failed>>

Next ==
    \/ \E p \in ParamsOf("getItem")     : getItem(p)
    \/ \E p \in ParamsOf("getItems")    : getItems(p)
    \/ \E p \in ParamsOf("addItems")    : addItems(p)
    \/ \E p \in ParamsOf("updateItem")  : updateItem(p)
    \/ \E p \in ParamsOf("updateItems") : updateItems(p)
    \/ \E p \in ParamsOf("upsertItems") : upsertItems(p)
    \/ \E p \in ParamsOf("deleteItem")  : deleteItem(p)
    \/ \E p \in ParamsOf("deleteItems") : deleteItems(p)
    \/ \E cfg \in Configs : SetConfig(cfg)

Spec == Init /\ [][Next]_vars

----------------------------------------------------------------------------
(* SpecExec: two callers use the entity at the same time.                  *)

\* Start with the member keeping one builder for all its calls: the calls of
\* a new query are chained after those of the caller's previous query.
Start_reusesBuilder(c, op, params) ==
    /\ op \in DOMAIN entity
    /\ tasks[c].status \in {"idle", "done"}
    /\ LET query == Invoke(entity[op], params)
           calls == IF tasks[c].status = "done"
                    THEN tasks[c].query.calls \o query.calls
                    ELSE query.calls
       IN  tasks' = [tasks EXCEPT ![c] =
                        [Idle EXCEPT !.status = "built", !.op = op,
                                     !.params = params,
                                     !.query = [query EXCEPT !.calls = calls]]]
    /\ UNCHANGED <<args, config, entity, ops, failed>>

\* Start with the entity sharing one builder among the queries that are not
\* executed yet: the calls of a new query are chained on the others as well.
Start_sharedBuilder(c, op, params) ==
    /\ op \in DOMAIN entity
    /\ tasks[c].status \in {"idle", "done"}
    /\ LET query == Invoke(entity[op], params)
       IN  tasks' = [d \in Callers |->
                        IF d = c
                        THEN [Idle EXCEPT !.status = "built", !.op = op,
                                          !.params = params, !.query = query]
                        ELSE IF tasks[d].status = "built"
                        THEN [tasks[d] EXCEPT
                                 !.query.calls = tasks[d].query.calls \o query.calls]
                        ELSE tasks[d]]
    /\ UNCHANGED <<args, config, entity, ops, failed>>

\* Caller c calls entity[op](params); the query it had before is dropped.
Start(c, op, params) ==
    /\ op \in DOMAIN entity
    /\ tasks[c].status \in {"idle", "done"}
    /\ tasks' = [tasks EXCEPT ![c] =
                    [Idle EXCEPT !.status = "built", !.op = op,
                                 !.params = params,
                                 !.query = Invoke(entity[op], params)]]
    /\ UNCHANGED <<args, config, entity, ops, failed>>

\* Caller c executes its query with one of the execution methods: the
\* request goes to the client.
Execute(c, method) ==
    /\ tasks[c].status = "built"
    /\ method \in MethodsOf(tasks[c].op)
    /\ tasks' = [tasks EXCEPT ![c].status = "inflight",
                              ![c].method = method,
                              ![c].sent = tasks[c].sent + 1]
    /\ UNCHANGED <<args, config, entity, ops, failed>>

\* Respond with the request sent once more when the client reports an error.
Respond_retries(c, answer) ==
    /\ tasks[c].status = "inflight"
    /\ LET response == ResponseTo(tasks[c].query, answer)
       IN  /\ tasks' =
                IF response.error # null /\ tasks[c].sent < 2
                THEN [tasks EXCEPT ![c].sent = tasks[c].sent + 1,
                                   ![c].received = tasks[c].received + 1]
                ELSE [tasks EXCEPT
                         ![c].status = "done",
                         ![c].received = tasks[c].received + 1,
                         ![c].response = response,
                         ![c].outcome = Settle(tasks[c].method, response)]
           /\ failed' = (failed \/ response.error # null)
    /\ UNCHANGED <<args, config, entity, ops>>

\* The client's response to the request of caller c arrives: the execution
\* method settles with it.
Respond(c, answer) ==
    /\ tasks[c].status = "inflight"
    /\ LET response == ResponseTo(tasks[c].query, answer)
       IN  /\ tasks' = [tasks EXCEPT
                           ![c].status = "done",
                           ![c].received = tasks[c].received + 1,
                           ![c].response = response,
                           ![c].outcome = Settle(tasks[c].method, response)]
           /\ failed' = (failed \/ response.error # null)
    /\ UNCHANGED <<args, config, entity, ops>>

AllMethods == UNION {MethodsOf(op) : op \in CrudOps}

NextExec ==
    \/ \E c \in Callers, op \in CrudOps : \E p \in ExecParamsOf(op) : Start(c, op, p)
    \/ \E c \in Callers, m \in AllMethods : Execute(c, m)
    \/ \E c \in Callers, a \in Answers : Respond(c, a)

SpecExec == Init /\ [][NextExec]_vars

----------------------------------------------------------------------------
(* Properties of Spec                                                      *)

\* The steps of the caller's history that built a query.
Queries == {i \in 1..Len(ops) : ops[i].op \in CrudOps}

\* The calls of a chain made for the condition `key`.
CallsFor(calls, key) == SelectSeq(calls, LAMBDA call : call.key = key)

\* The calls of a chain made with `method`.
CallsWith(calls, method) == SelectSeq(calls, LAMBDA call : call.method = method)

HasSoftDeleteFilter(query) == CallsFor(query.calls, "softDelete") # <<>>

\* The conditions of the parameter objects of the get operations, and the
\* builder method of each.
ConditionKeys == {"id", "where", "is", "wherein", "order"}

MethodFor(key) ==
    CASE key = "id"      -> "eq"
      [] key = "where"   -> "match"
      [] key = "is"      -> "is"
      [] key = "wherein" -> "in"
      [] key = "order"   -> "order"

\* C1: the object Entity returns has all of getItem, getItems, addItems,
\* updateItem, updateItems, upsertItems, deleteItem and deleteItems.
C1_AllCrudOperations == DOMAIN entity = CrudOps

\* C2: when Entity was called with softDelete set, every query getItem and
\* getItems build applies the soft-delete mode getSoftDeleteMode derives from
\* that configuration, whatever the parameter object and whatever the caller
\* did before.
C2_SoftDeleteApplied ==
    args.config.softDelete = TRUE =>
        \A i \in Queries :
            ops[i].op \in GetOps =>
                CallsFor(ops[i].query.calls, "softDelete")
                    = SoftDeleteCalls(getSoftDeleteMode(args.config.softDelete))

C2_Witness ==
    /\ args.config.softDelete = TRUE
    /\ Len(ops) = 2
    /\ ops[1].op = "getItem"
    /\ ops[2].op = "getItems"
    /\ "wherein" \in DOMAIN ops[2].params
    /\ HasSoftDeleteFilter(ops[1].query)
    /\ HasSoftDeleteFilter(ops[2].query)

\* C3: for every query of getItem and getItems, each condition the parameter
\* object holds (id, where, is, wherein, order) makes exactly one call of its
\* builder method (eq, match, is, in, order) with the condition's value, and
\* every filter call of the chain comes from a condition the parameter object
\* holds or is the soft-delete filter.
C3_CallsMatchParams ==
    \A i \in Queries :
        ops[i].op \in GetOps =>
            LET params == ops[i].params
                calls == ops[i].query.calls
                conditions == DOMAIN params \cap ConditionKeys
            IN  /\ \A k \in conditions :
                       CallsFor(calls, k)
                           = <<BuilderCall(MethodFor(k), k, params[k])>>
                /\ \A n \in 1..Len(calls) :
                       calls[n].method \in FilterMethods =>
                           calls[n].key \in conditions \cup {"softDelete"}
                /\ \A m \in FilterMethods \ {"is"} :
                       Len(CallsWith(calls, m))
                           = Cardinality({k \in conditions : MethodFor(k) = m})
                /\ Len(CallsWith(calls, "is"))
                       = Cardinality(conditions \cap {"is"})
                         + Len(SoftDeleteCalls(getSoftDeleteMode(args.config.softDelete)))

C3_Witness ==
    /\ Len(ops) = 2
    /\ ops[1].op = "getItems"
    /\ DOMAIN ops[1].params = {"where", "is", "wherein", "order"}
    /\ Len(ops[1].query.calls) >= 5
    /\ ops[2].op = "getItems"
    /\ DOMAIN ops[2].params = {}
    /\ CallsWith(ops[2].query.calls, "match") = <<>>
    /\ CallsWith(ops[2].query.calls, "in") = <<>>
    /\ CallsWith(ops[2].query.calls, "order") = <<>>

\* The schema an entity of this version uses for the config it was given.
SchemaUsed == IF args.version = "schema" THEN args.config.schema ELSE undefined

\* C9: the soft-delete mode and the schema are fixed when Entity is called:
\* a query built after the caller changed its config object still uses the
\* schema and the soft-delete mode of the config Entity was called with.
C9_ConfigFixedAtCreation ==
    \A i \in Queries :
        (\E j \in 1..(i - 1) : ops[j].op = "setConfig") =>
            /\ ops[i].query.schema = SchemaUsed
            /\ ops[i].op \in GetOps =>
                   (HasSoftDeleteFilter(ops[i].query)
                       <=> getSoftDeleteMode(args.config.softDelete) = "exclude")

C9_Witness ==
    /\ args.version = "schema"
    /\ Len(ops) = 2
    /\ ops[1].op = "setConfig"
    /\ ops[1].params.softDelete # args.config.softDelete
    /\ ops[1].params.schema # args.config.schema
    /\ config = ops[1].params
    /\ ops[2].op = "getItems"
    /\ ops[2].query.schema = args.config.schema

\* The config Entity was called with, with softDelete the other way round.
OtherSoftDelete == [args.config EXCEPT !.softDelete = ~args.config.softDelete]

\* C10: the mutation operations are built without the soft-delete mode: their
\* closures do not hold it, their chains have no soft-delete filter, and the
\* query each builds is the one the same entity configured with the other
\* value of softDelete builds for the same parameters.
C10_MutationsIgnoreSoftDelete ==
    /\ \A op \in DOMAIN entity \cap MutationOps :
           "softDeleteMode" \notin DOMAIN entity[op]
    /\ \A i \in Queries :
           ops[i].op \in MutationOps =>
               /\ ~HasSoftDeleteFilter(ops[i].query)
               /\ ops[i].query
                     = Invoke(EntityOf(args.version, args.client, args.name,
                                       OtherSoftDelete)[ops[i].op],
                              ops[i].params)

C10_Witness ==
    /\ args.config.softDelete = TRUE
    /\ Len(ops) = 2
    /\ ops[1].op = "deleteItem"
    /\ ops[2].op = "updateItems"
    /\ ops[1].query.from = args.name

----------------------------------------------------------------------------
(* Properties of SpecExec                                                  *)

Running == {c \in Callers : tasks[c].status # "idle"}
Done == {c \in Callers : tasks[c].status = "done"}

\* C4: when the client reports an error, a method that does not throw returns
\* that error as a value and does not raise, and the OrThrow method raises that
\* error; no outcome carries an error the client did not report, and no
\* outcome of a failed request is a success.
C4_ErrorsReturnedOrRaised ==
    \A c \in Done :
        LET method == tasks[c].method
            response == tasks[c].response
            outcome == tasks[c].outcome
        IN  /\ ~OrThrow(method) =>
                   /\ outcome.kind = "returned"
                   /\ outcome.error = response.error
            /\ (OrThrow(method) /\ response.error # null) =>
                   /\ outcome.kind = "raised"
                   /\ outcome.error = response.error
            /\ outcome.error # null => outcome.error = response.error
            /\ outcome.kind = "raised" => response.error # null
            /\ response.error # null => outcome.error # null

C4_Witness ==
    \E c, d \in Done :
        /\ tasks[c].op = tasks[d].op
        /\ ~OrThrow(tasks[c].method)
        /\ OrThrow(tasks[d].method)
        /\ tasks[c].response.error = "constraint-violation"
        /\ tasks[d].response.error = "constraint-violation"
        /\ tasks[c].outcome.kind = "returned"
        /\ tasks[d].outcome.kind = "raised"

\* C5: every query built through the entity is on the client and the table
\* Entity was called with, and what an executed operation yields is the data
\* and the error of the client's response to that query.
C5_DelegatesToClientAndTable ==
    \A c \in Running :
        /\ tasks[c].query.client = args.client
        /\ tasks[c].query.from = args.name
        /\ tasks[c].status = "done" =>
               /\ tasks[c].response.request = tasks[c].query
               /\ tasks[c].outcome.data = tasks[c].response.data
               /\ tasks[c].outcome.error = tasks[c].response.error

C5_Witness ==
    /\ args.client = "clientB"
    /\ args.name = "users"
    /\ \E c, d \in Done :
        /\ tasks[c].op = "updateItems"
        /\ tasks[c].outcome.data = "rows"
        /\ tasks[d].op = "getItem"
        /\ tasks[d].outcome.error = "row-not-found"

\* C6: an execution sends one request, never a second one (no retry after an
\* error), and the operation is complete exactly when the one response to
\* that request has arrived.
C6_OneRequestOneResponse ==
    \A c \in Callers :
        /\ tasks[c].status \in {"idle", "built"} =>
               tasks[c].sent = 0 /\ tasks[c].received = 0
        /\ tasks[c].status = "inflight" =>
               tasks[c].sent = 1 /\ tasks[c].received = 0
        /\ tasks[c].status = "done" =>
               tasks[c].sent = 1 /\ tasks[c].received = 1

C6_Witness ==
    \E c \in Done :
        /\ tasks[c].response.error = "network-failure"
        /\ tasks[c].sent = 1
        /\ tasks[c].received = 1

====
